---------------------------- MODULE Spec2Model ----------------------------
(***************************************************************************)
(* A model of examples/python-implementation.py: the agent registry, the   *)
(* message bus, the worker and the hierarchical orchestrator.              *)
(*                                                                         *)
(* The specifications of the module:                                       *)
(*   SpecRegistry  register / discover on an AgentRegistry                 *)
(*   SpecBus       subscribe / create_queue / publish on a MessageBus,     *)
(*                 with concurrent publishers                              *)
(*   Spec          one HierarchicalOrchestrator: subscribe, add_worker,    *)
(*                 execute_workflow with its dispatch loops and poller     *)
(*   FairSpec      Spec with the fairness asyncio's event loop gives       *)
(*                 every runnable coroutine                                *)
(*   SpecWorker    Worker.execute called directly, the call cancellable    *)
(*   SpecMonitored a workflow with main's log_events callback subscribed   *)
(*                 to both topics                                          *)
(*   SpecSeq       SpecMonitored with repeated execute_workflow calls      *)
(*                                                                         *)
(* asyncio is single threaded: a coroutine runs without interleaving from  *)
(* one suspension point to the next.  Every action below is one such run.  *)
(* Timestamps, uuids and log output are not modelled.                      *)
(***************************************************************************)
EXTENDS Integers, Sequences, FiniteSets, TLC

VARIABLES
    agents,             \* AgentRegistry._agents: agent_id -> registration
    capability_index,   \* AgentRegistry._capability_index: name -> list of ids
    nregister,          \* number of register calls made so far (bounds the run)
    subscribers,        \* MessageBus._subscribers: topic -> list of callbacks
    queues,             \* MessageBus._queues: topic -> queue content
    received,           \* per topic and callback: the messages it was invoked with
    consumed,           \* per topic: the messages the queue's consumer has pulled
    pub,                \* SpecBus: each publisher's publish call in flight
    published,          \* SpecBus: history of the publish calls, by message id
    workers,            \* HierarchicalOrchestrator.workers: ids in add order
    worker_caps,        \* Worker.capabilities, by worker id
    current_task,       \* Worker.current_task, by worker id
    tasks,              \* the Task objects, by task id
    task_queue,         \* HierarchicalOrchestrator.task_queue: task ids
    results,            \* HierarchicalOrchestrator.results: its keys in order
    loops,              \* the _worker_loop asyncio tasks, by worker id
    wf,                 \* execute_workflow: "idle", "polling" or "returned"
    returned            \* the list execute_workflow returned

registryVars == <<agents, capability_index, nregister>>
busVars == <<subscribers, queues, received, consumed>>
publisherVars == <<pub, published>>
orchVars == <<workers, worker_caps, current_task, tasks, task_queue, results,
              loops, wf, returned>>

vars == <<agents, capability_index, nregister,
          subscribers, queues, received, consumed, pub, published,
          workers, worker_caps, current_task, tasks, task_queue, results,
          loops, wf, returned>>

-----------------------------------------------------------------------------
(* Generic helpers for Python dicts and lists.                             *)

\* Python's None.
None == "None"

\* d[k] = v on a dict: the key is added when missing, its value replaced
\* otherwise; the other entries are kept.
DictPut(d, k, v) == [x \in (DOMAIN d) \cup {k} |-> IF x = k THEN v ELSE d[x]]

\* dict.get(k): the value, or None when the key is missing.
DictGet(d, k) == IF k \in DOMAIN d THEN d[k] ELSE None

\* The empty dict.
EmptyDict == [x \in {} |-> None]

Range(s) == {s[i] : i \in DOMAIN s}

-----------------------------------------------------------------------------
(* Agent Registry                                                          *)

\* Bounds and input sets of the registry runs.
MaxRegisterCalls == 2

AgentIds == {"researcher-001", "analyst-001"}
CapabilityNames == {"research", "analysis"}

\* Constraint maps a registered capability may carry.
CapabilityConstraints ==
    { EmptyDict,
      [k \in {"region"} |-> "us"],
      [k \in {"region", "tier"} |-> IF k = "region" THEN "eu" ELSE "gold"] }

\* Constraint maps of a discover query.  The empty map is "no constraints".
QueryConstraints ==
    { EmptyDict,
      [k \in {"region"} |-> "us"],
      [k \in {"region"} |-> "eu"],
      [k \in {"region", "tier"} |-> IF k = "region" THEN "us" ELSE "gold"],
      [k \in {"region", "tier"} |-> IF k = "region" THEN "eu" ELSE "gold"],
      [k \in {"tier"} |-> None] }

\* AgentCapability(name, version, constraints)
AgentCapability(name, constraints) ==
    [name |-> name, version |-> "1.0", constraints |-> constraints]

Capabilities ==
    {AgentCapability(n, c) : n \in CapabilityNames, c \in CapabilityConstraints}

\* The capability lists a register call is given: any list of at most two
\* capabilities, a repeated one included.
CapabilityLists ==
    {<<>>} \cup {<<c>> : c \in Capabilities}
           \cup {<<c, d>> : c \in Capabilities, d \in Capabilities}

\* AgentRegistration(...) as register builds it.
AgentRegistration(agent_id, capabilities, endpoint) ==
    [agent_id |-> agent_id,
     capabilities |-> capabilities,
     endpoint |-> endpoint,
     health_endpoint |-> <<endpoint, "/health">>]

\* The loop of register over the capabilities: each capability's name gets
\* the agent id appended to its index list, the list created when missing.
RECURSIVE IndexAfter(_, _, _, _)
IndexAfter(index, agent_id, capabilities, i) ==
    IF i > Len(capabilities) THEN index
    ELSE LET name == capabilities[i].name
             old  == IF name \in DOMAIN index THEN index[name] ELSE <<>>
         IN  IndexAfter(DictPut(index, name, Append(old, agent_id)),
                        agent_id, capabilities, i + 1)

\* AgentRegistry.register: the new state of (_agents, _capability_index).
RegisterResult(ags, index, agent_id, capabilities, endpoint) ==
    [agents |-> DictPut(ags, agent_id,
                        AgentRegistration(agent_id, capabilities, endpoint)),
     capability_index |-> IndexAfter(index, agent_id, capabilities, 1)]

\* all(cap.constraints.get(k) == v for k, v in constraints.items())
CapabilityMatches(cap, constraints) ==
    \A k \in DOMAIN constraints : DictGet(cap.constraints, k) = constraints[k]

\* AgentRegistry._matches_constraints: the first capability that matches
\* returns True; False when the loop runs out.
RECURSIVE MatchesFrom(_, _, _)
MatchesFrom(agent, constraints, i) ==
    IF i > Len(agent.capabilities) THEN FALSE
    ELSE IF CapabilityMatches(agent.capabilities[i], constraints) THEN TRUE
    ELSE MatchesFrom(agent, constraints, i + 1)

\* A faulty _matches_constraints: every capability has to match (AND across
\* the capabilities instead of OR).
_matches_constraints_all_capabilities(agent, constraints) ==
    \A i \in 1..Len(agent.capabilities) :
        CapabilityMatches(agent.capabilities[i], constraints)

_matches_constraints(agent, constraints) == MatchesFrom(agent, constraints, 1)

\* [self._agents[aid] for aid in agent_ids if aid in self._agents]
RECURSIVE Lookup(_, _, _)
Lookup(ags, agent_ids, i) ==
    IF i > Len(agent_ids) THEN <<>>
    ELSE IF agent_ids[i] \in DOMAIN ags
         THEN <<ags[agent_ids[i]]>> \o Lookup(ags, agent_ids, i + 1)
         ELSE Lookup(ags, agent_ids, i + 1)

\* [a for a in agents if self._matches_constraints(a, constraints)]
RECURSIVE FilterMatching(_, _, _)
FilterMatching(regs, constraints, i) ==
    IF i > Len(regs) THEN <<>>
    ELSE IF _matches_constraints(regs[i], constraints)
         THEN <<regs[i]>> \o FilterMatching(regs, constraints, i + 1)
         ELSE FilterMatching(regs, constraints, i + 1)

\* AgentRegistry.discover on a registry (ags, index).  An empty constraints
\* map is falsy in Python, like None: no filtering.
DiscoverIn(ags, index, capability, constraints) ==
    IF capability \notin DOMAIN index THEN <<>>
    ELSE LET found == Lookup(ags, index[capability], 1)
         IN  IF constraints # EmptyDict
             THEN FilterMatching(found, constraints, 1)
             ELSE found

discover(capability, constraints) ==
    DiscoverIn(agents, capability_index, capability, constraints)

RegistryInit ==
    /\ agents = EmptyDict
    /\ capability_index = EmptyDict
    /\ nregister = 0

\* registry.register(agent_id, capabilities, endpoint)
register(agent_id, capabilities) ==
    /\ nregister < MaxRegisterCalls
    /\ LET r == RegisterResult(agents, capability_index, agent_id,
                               capabilities, <<"agent://", agent_id>>)
       IN  /\ agents' = r.agents
           /\ capability_index' = r.capability_index
    /\ nregister' = nregister + 1
    /\ UNCHANGED <<busVars, publisherVars, orchVars>>

-----------------------------------------------------------------------------
(* Message Bus                                                             *)

\* Bounds of the bus runs.
MaxSubscribers == 2
MaxMessages == 2

Topics == {"task.assigned", "task.completed"}

\* What a subscribed callback does when it is awaited with a message: it
\* returns without suspending, it suspends (awaits) and returns when resumed,
\* or it raises.
CallbackKinds == {"returns", "suspends", "raises"}

Publishers == {"p1", "p2"}

\* A faulty put: the item goes to the head of the queue.
QueuePutFront(q, item) == <<item>> \o q

\* A faulty put: the item is dropped.
QueuePutDrop(q, item) == q

\* asyncio.Queue.put on an unbounded queue: the item goes to the tail.
QueuePut(q, item) == Append(q, item)

\* A faulty get: the head is handed out and stays in the queue.
QueueGetPeek(q) == q

\* asyncio.Queue.get on a non-empty queue: the head is removed (and handed
\* to the caller); what is left of the queue.
QueueGet(q) == Tail(q)

\* for subscriber in self._subscribers[topic]: await subscriber(message),
\* run from the i-th callback up to the next suspension, a raise, or the end
\* of the list.  log[j] is what callback j has been invoked with.
RECURSIVE RunCallbacks(_, _, _, _)
RunCallbacks(subs, log, message, i) ==
    IF i > Len(subs) THEN [log |-> log, outcome |-> "delivered", at |-> i]
    ELSE LET invoked == [log EXCEPT ![i] = Append(@, message)]
         IN  IF subs[i] = "raises"
                 THEN [log |-> invoked, outcome |-> "raised", at |-> i]
             ELSE IF subs[i] = "suspends"
                 THEN [log |-> invoked, outcome |-> "suspended", at |-> i]
             ELSE RunCallbacks(subs, invoked, message, i + 1)

\* if topic in self._queues: await self._queues[topic].put(message),
\* after which publish returns.
PublishTail(qs, recv, topic, message) ==
    [received |-> recv,
     queues |-> IF topic \in DOMAIN qs
                THEN [qs EXCEPT ![topic] = QueuePut(@, message)]
                ELSE qs,
     outcome |-> "done",
     at |-> 0]

\* MessageBus.publish continued inside its loop at callback i.
PublishFrom(subs, qs, recv, topic, message, i) ==
    LET r == RunCallbacks(subs[topic], recv[topic], message, i)
        recv2 == [recv EXCEPT ![topic] = r.log]
    IN  IF r.outcome = "delivered"
        THEN PublishTail(qs, recv2, topic, message)
        ELSE [received |-> recv2, queues |-> qs,
              outcome |-> r.outcome, at |-> r.at]

\* MessageBus.publish from its first line, up to its first suspension:
\* outcome is "done" (returned), "suspended" (inside callback `at`) or
\* "raised" (callback `at` raised and the exception left publish).
publish(subs, qs, recv, topic, message) ==
    IF topic \in DOMAIN subs
    THEN PublishFrom(subs, qs, recv, topic, message, 1)
    ELSE PublishTail(qs, recv, topic, message)

\* MessageBus.subscribe; the callback's log starts empty.
subscribe(topic, callback) ==
    /\ subscribers' = DictPut(subscribers, topic,
           Append(IF topic \in DOMAIN subscribers THEN subscribers[topic]
                  ELSE <<>>, callback))
    /\ received' = DictPut(received, topic,
           Append(IF topic \in DOMAIN received THEN received[topic]
                  ELSE <<>>, <<>>))

\* MessageBus.create_queue: the existing queue is kept.
create_queue(topic) ==
    /\ queues' = IF topic \notin DOMAIN queues
                 THEN DictPut(queues, topic, <<>>)
                 ELSE queues
    /\ consumed' = IF topic \notin DOMAIN consumed
                   THEN DictPut(consumed, topic, <<>>)
                   ELSE consumed

\* The consumer of a topic's queue: queue.get() yields the head.
Consume(topic) ==
    /\ topic \in DOMAIN queues
    /\ queues[topic] # <<>>
    /\ consumed' = [consumed EXCEPT ![topic] = Append(@, Head(queues[topic]))]
    /\ queues' = [queues EXCEPT ![topic] = Tail(@)]

BusInit ==
    /\ subscribers = EmptyDict
    /\ queues = EmptyDict
    /\ received = EmptyDict
    /\ consumed = EmptyDict

\* Message(...): the envelope; its id stands for the uuid.
Message(id, type, source, destination, payload) ==
    [id |-> id, type |-> type, source |-> source,
     destination |-> destination, payload |-> payload]

IdlePublisher == [pc |-> "idle", topic |-> None, message |-> None, at |-> 0]

PublisherInit ==
    /\ pub = [p \in Publishers |-> IdlePublisher]
    /\ published = EmptyDict

\* The ids of the messages whose publish call is over (returned or raised).
Completed == {m \in DOMAIN published : published[m].status # "running"}

\* What a publisher holds after a run of publish that ended with `r`.
PublisherAfter(r, topic, message) ==
    IF r.outcome = "suspended"
    THEN [pc |-> "in_callback", topic |-> topic, message |-> message,
          at |-> r.at]
    ELSE IdlePublisher

StatusAfter(r) ==
    IF r.outcome = "suspended" THEN "running"
    ELSE IF r.outcome = "raised" THEN "raised" ELSE "returned"

BusSubscribe(topic, callback) ==
    /\ Len(IF topic \in DOMAIN subscribers THEN subscribers[topic] ELSE <<>>)
         < MaxSubscribers
    /\ subscribe(topic, callback)
    /\ UNCHANGED <<registryVars, queues, consumed, pub, published, orchVars>>

BusCreateQueue(topic) ==
    /\ create_queue(topic)
    /\ UNCHANGED <<registryVars, subscribers, received, pub, published,
                   orchVars>>

BusConsume(topic) ==
    /\ Consume(topic)
    /\ UNCHANGED <<registryVars, subscribers, received, pub, published,
                   orchVars>>

\* A publisher calls publish(topic, Message()) with a fresh message.
BusPublish(p, topic) ==
    /\ pub[p].pc = "idle"
    /\ Cardinality(DOMAIN published) < MaxMessages
    /\ LET id == Cardinality(DOMAIN published) + 1
           message == Message(id, "request", p, "", None)
           r == publish(subscribers, queues, received, topic, message)
       IN  /\ received' = r.received
           /\ queues' = r.queues
           /\ pub' = [pub EXCEPT ![p] = PublisherAfter(r, topic, message)]
           /\ published' = DictPut(published, id,
                 [topic |-> topic,
                  before |-> Completed,
                  returned_before |->
                      {m \in Completed : published[m].status = "returned"},
                  nsubs |-> IF topic \in DOMAIN subscribers
                            THEN Len(subscribers[topic]) ELSE 0,
                  had_queue |-> topic \in DOMAIN queues,
                  status |-> StatusAfter(r)])
    /\ UNCHANGED <<registryVars, subscribers, consumed, orchVars>>

\* The callback a publish call is suspended in returns; publish goes on with
\* the next callback.
BusResume(p) ==
    /\ pub[p].pc = "in_callback"
    /\ LET topic == pub[p].topic
           message == pub[p].message
           r == PublishFrom(subscribers, queues, received, topic, message,
                            pub[p].at + 1)
       IN  /\ received' = r.received
           /\ queues' = r.queues
           /\ pub' = [pub EXCEPT ![p] = PublisherAfter(r, topic, message)]
           /\ published' = [published EXCEPT
                               ![message.id].status = StatusAfter(r)]
    /\ UNCHANGED <<registryVars, subscribers, consumed, orchVars>>

-----------------------------------------------------------------------------
(* Worker and Hierarchical Orchestrator                                    *)

\* Bounds of the workflow runs.
MaxTasks == 2
MaxWorkflowSubscribers == 1

\* The workers, in the order the caller adds them (the ids are
\* interchangeable, so one order stands for all).
WorkerOrder == <<"researcher-001", "analyst-001">>
WorkerIds == Range(WorkerOrder)
TaskNames == {"research", "analysis"}

\* The capability lists a Worker is constructed with.
WorkerCapabilityLists ==
    {<<"research">>, <<"analysis">>, <<"research", "analysis">>}

\* The task lists execute_workflow is called with: names of at most MaxTasks
\* tasks; the i-th task gets id i.
RECURSIVE NameLists(_)
NameLists(n) ==
    IF n = 0 THEN {<<>>}
    ELSE LET shorter == NameLists(n - 1)
         IN  shorter \cup {Append(s, name) :
                              s \in {x \in shorter : Len(x) = n - 1},
                              name \in TaskNames}

\* Task ids are 1, 2, ...; a reference to no task (current_task = None) is 0.
NoTask == 0

\* Task(name=...): a fresh task is PENDING and unassigned.
Task(id, name) ==
    [id |-> id, name |-> name, status |-> "pending",
     assigned_to |-> None, result |-> None, error |-> None]

\* A faulty store: a new key goes to the front of the results.
ResultsPutFront(res, id) ==
    IF id \in Range(res) THEN res ELSE <<id>> \o res

\* self.results[task.id] = result on an insertion-ordered dict whose values
\* are the task objects themselves: the keys in insertion order.
ResultsPut(res, id) ==
    IF id \in Range(res) THEN res ELSE Append(res, id)

\* A faulty capability check: every task is accepted.
CanHandleAnything(caps, task) == TRUE

\* task.name in worker.capabilities
CanHandle(caps, task) == task.name \in Range(caps)

\* Worker.execute up to its await: the worker is marked busy and the task
\* IN_PROGRESS.
ExecuteBegin(ts, cur, w, t) ==
    [tasks |-> [ts EXCEPT ![t].status = "in_progress"],
     current_task |-> [cur EXCEPT ![w] = t]]

\* The result Worker.execute stores, by task name.
ResultOf(name, w) ==
    IF name = "research" THEN <<"findings", w>>
    ELSE IF name = "analysis" THEN <<"analysis", w>>
    ELSE <<"output", w>>

\* A faulty end of Worker.execute: the except clause records the error and
\* leaves the status as it was.
ExecuteEndKeepsStatus(ts, cur, w, t, fails) ==
    [tasks |-> IF fails
               THEN [ts EXCEPT ![t].error = "error"]
               ELSE [ts EXCEPT ![t].status = "completed",
                               ![t].result = ResultOf(ts[t].name, w)],
     current_task |-> [cur EXCEPT ![w] = NoTask]]

\* Worker.execute from its await to its return: the work completes, or it
\* raises an Exception, which the except clause records; the busy flag is
\* cleared.
ExecuteEnd(ts, cur, w, t, fails) ==
    [tasks |-> IF fails
               THEN [ts EXCEPT ![t].status = "failed", ![t].error = "error"]
               ELSE [ts EXCEPT ![t].status = "completed",
                               ![t].result = ResultOf(ts[t].name, w)],
     current_task |-> [cur EXCEPT ![w] = NoTask]]

\* A faulty task.assigned event: the worker as source, the orchestrator as
\* destination.
AssignedMessageFromWorker(t, w) ==
    Message(<<"task.assigned", t>>, "event", w, "orchestrator",
            [task_id |-> t, worker_id |-> w])

\* A faulty task.completed event: the status is always "completed".
CompletedMessageAlwaysCompleted(t, w, status) ==
    Message(<<"task.completed", t>>, "event", w, "orchestrator",
            [task_id |-> t, status |-> "completed"])

\* The two events of _worker_loop.
AssignedMessage(t, w) ==
    Message(<<"task.assigned", t>>, "event", "orchestrator", w,
            [task_id |-> t, worker_id |-> w])

CompletedMessage(t, w, status) ==
    Message(<<"task.completed", t>>, "event", w, "orchestrator",
            [task_id |-> t, status |-> status])

\* A dispatch loop's position: pc is
\*   "get"           awaiting wait_for(self.task_queue.get(), timeout=1.0)
\*   "assigned_cb"   inside publish("task.assigned"), suspended in callback at
\*   "executing"     inside worker.execute, suspended in its await
\*   "completed_cb"  inside publish("task.completed"), suspended in callback at
\*   "sleeping"      in asyncio.sleep(0.1) after a requeue
\*   "cancelled"     left the loop by break on CancelledError
\*   "crashed"       an exception other than TimeoutError/CancelledError left
\*                   _worker_loop and ended its asyncio task
\* task is the task the loop holds; cancel says that cancel() was called on
\* the loop's asyncio task and has not been delivered yet.
LoopAt(pc, task, at) == [pc |-> pc, task |-> task, at |-> at, cancel |-> FALSE]

\* _worker_loop after publish("task.assigned") ended its run with r: on
\* return the loop goes into worker.execute.
AfterAssigned(ts, cur, w, t, r) ==
    IF r.outcome = "raised"
        THEN [tasks |-> ts, current_task |-> cur,
              loop |-> LoopAt("crashed", t, 0)]
    ELSE IF r.outcome = "suspended"
        THEN [tasks |-> ts, current_task |-> cur,
              loop |-> LoopAt("assigned_cb", t, r.at)]
    ELSE LET e == ExecuteBegin(ts, cur, w, t)
         IN  [tasks |-> e.tasks, current_task |-> e.current_task,
              loop |-> LoopAt("executing", t, 0)]

\* _worker_loop after publish("task.completed") ended its run with r: on
\* return the loop goes back to the top of while True.
AfterCompleted(t, r) ==
    IF r.outcome = "raised" THEN LoopAt("crashed", t, 0)
    ELSE IF r.outcome = "suspended" THEN LoopAt("completed_cb", t, r.at)
    ELSE LoopAt("get", NoTask, 0)

OrchestratorInit ==
    /\ workers = <<>>
    /\ worker_caps = EmptyDict
    /\ current_task = EmptyDict
    /\ tasks = EmptyDict
    /\ task_queue = <<>>
    /\ results = <<>>
    /\ loops = EmptyDict
    /\ wf = "idle"
    /\ returned = <<>>

Init == RegistryInit /\ BusInit /\ PublisherInit /\ OrchestratorInit

\* The number of callbacks subscribed, over all topics.
RECURSIVE SumLen(_, _)
SumLen(d, keys) ==
    IF keys = {} THEN 0
    ELSE LET k == CHOOSE x \in keys : TRUE
         IN  Len(d[k]) + SumLen(d, keys \ {k})

SubscriberCount == SumLen(subscribers, DOMAIN subscribers)

\* message_bus.subscribe(topic, callback), before the workflow is started.
WorkflowSubscribe(topic, callback) ==
    /\ wf = "idle"
    /\ SubscriberCount < MaxWorkflowSubscribers
    /\ subscribe(topic, callback)
    /\ UNCHANGED <<registryVars, queues, consumed, publisherVars, orchVars>>

\* Worker(w, caps) and orchestrator.add_worker of it.
add_worker(w, caps) ==
    /\ wf = "idle"
    /\ Len(workers) < Len(WorkerOrder)
    /\ w = WorkerOrder[Len(workers) + 1]
    /\ workers' = Append(workers, w)
    /\ worker_caps' = DictPut(worker_caps, w, caps)
    /\ current_task' = DictPut(current_task, w, NoTask)
    /\ LET capabilities ==
               [i \in 1..Len(caps) |-> AgentCapability(caps[i], EmptyDict)]
           r == RegisterResult(agents, capability_index, w, capabilities,
                               <<"worker://", w>>)
       IN  /\ agents' = r.agents
           /\ capability_index' = r.capability_index
    /\ nregister' = nregister + 1
    /\ UNCHANGED <<busVars, publisherVars, tasks, task_queue, results,
                   loops, wf, returned>>

\* wt.cancel() for every dispatch loop whose asyncio task has not ended.
CancelAll(ls) ==
    [w \in DOMAIN ls |->
        IF ls[w].pc \in {"cancelled", "crashed"} THEN ls[w]
        ELSE [ls[w] EXCEPT !.cancel = TRUE]]

\* execute_workflow(tasks) up to its first await: the tasks are queued, one
\* dispatch loop per worker is created, and the while condition is tested;
\* with nothing queued the loops are cancelled and the call returns at once.
execute_workflow(names) ==
    /\ wf = "idle"
    /\ LET created == [w \in Range(workers) |-> LoopAt("get", NoTask, 0)]
       IN  /\ tasks' = [i \in 1..Len(names) |-> Task(i, names[i])]
           /\ task_queue' = [i \in 1..Len(names) |-> i]
           /\ IF names = <<>>
              THEN /\ loops' = CancelAll(created)
                   /\ wf' = "returned"
                   /\ returned' = results
              ELSE /\ loops' = created
                   /\ wf' = "polling"
                   /\ UNCHANGED returned
    /\ UNCHANGED <<registryVars, busVars, publisherVars, workers, worker_caps,
                   current_task, results>>

\* A faulty end-of-workflow test: only the queue is looked at.
QuiescentQueueOnly == task_queue = <<>>

\* not (not self.task_queue.empty() or any(w.current_task for w in
\* self.workers)): the while loop of execute_workflow is left.
Quiescent ==
    /\ task_queue = <<>>
    /\ \A i \in 1..Len(workers) : current_task[workers[i]] = NoTask

\* execute_workflow wakes from asyncio.sleep(0.1) and finds the queue empty
\* and no worker busy: it cancels the loops and returns the results.
PollerExit ==
    /\ wf = "polling"
    /\ Quiescent
    /\ loops' = CancelAll(loops)
    /\ returned' = results
    /\ wf' = "returned"
    /\ UNCHANGED <<registryVars, busVars, publisherVars, workers, worker_caps,
                   current_task, tasks, task_queue, results>>

\* A dispatch loop is runnable when its asyncio task has no cancel pending.
Runs(w, pc) ==
    /\ w \in DOMAIN loops
    /\ loops[w].pc = pc
    /\ ~loops[w].cancel

\* wait_for(get) yields the head of the queue.  A task the worker can
\* handle is assigned and task.assigned is published; on return of publish
\* worker.execute starts.  Any other task goes back to the tail and the
\* loop sleeps.
LoopGet(w) ==
    /\ Runs(w, "get")
    /\ task_queue # <<>>
    /\ LET t == Head(task_queue)
       IN  IF CanHandle(worker_caps[w], tasks[t])
           THEN LET assigned == [tasks EXCEPT ![t].assigned_to = w]
                    r == publish(subscribers, queues, received,
                                     "task.assigned", AssignedMessage(t, w))
                    a == AfterAssigned(assigned, current_task, w, t, r)
                IN  /\ task_queue' = QueueGet(task_queue)
                    /\ received' = r.received
                    /\ queues' = r.queues
                    /\ tasks' = a.tasks
                    /\ current_task' = a.current_task
                    /\ loops' = [loops EXCEPT ![w] = a.loop]
           ELSE /\ task_queue' = QueuePut(QueueGet(task_queue), t)
                /\ loops' = [loops EXCEPT ![w] = LoopAt("sleeping", NoTask, 0)]
                /\ UNCHANGED <<received, queues, tasks, current_task>>
    /\ UNCHANGED <<registryVars, subscribers, consumed, publisherVars,
                   workers, worker_caps, results, wf, returned>>

\* wait_for(get) times out on an empty queue: continue.
LoopTimeout(w) ==
    /\ Runs(w, "get")
    /\ task_queue = <<>>
    /\ UNCHANGED vars

\* asyncio.sleep(0.1) after a requeue is over.
LoopWake(w) ==
    /\ Runs(w, "sleeping")
    /\ loops' = [loops EXCEPT ![w] = LoopAt("get", NoTask, 0)]
    /\ UNCHANGED <<registryVars, busVars, publisherVars, workers, worker_caps,
                   current_task, tasks, task_queue, results, wf, returned>>

\* The task.assigned callback the loop is suspended in returns.
LoopResumeAssigned(w) ==
    /\ Runs(w, "assigned_cb")
    /\ LET t == loops[w].task
           r == PublishFrom(subscribers, queues, received, "task.assigned",
                            AssignedMessage(t, w), loops[w].at + 1)
           a == AfterAssigned(tasks, current_task, w, t, r)
       IN  /\ received' = r.received
           /\ queues' = r.queues
           /\ tasks' = a.tasks
           /\ current_task' = a.current_task
           /\ loops' = [loops EXCEPT ![w] = a.loop]
    /\ UNCHANGED <<registryVars, subscribers, consumed, publisherVars,
                   workers, worker_caps, task_queue, results, wf, returned>>

\* worker.execute resumes from its await and returns; the loop stores the
\* task in results and publishes task.completed.
LoopExecuteDone(w, fails) ==
    /\ Runs(w, "executing")
    /\ LET t == loops[w].task
           e == ExecuteEnd(tasks, current_task, w, t, fails)
           r == publish(subscribers, queues, received, "task.completed",
                            CompletedMessage(t, w, e.tasks[t].status))
       IN  /\ tasks' = e.tasks
           /\ current_task' = e.current_task
           /\ results' = ResultsPut(results, t)
           /\ received' = r.received
           /\ queues' = r.queues
           /\ loops' = [loops EXCEPT ![w] = AfterCompleted(t, r)]
    /\ UNCHANGED <<registryVars, subscribers, consumed, publisherVars,
                   workers, worker_caps, task_queue, wf, returned>>

\* The task.completed callback the loop is suspended in returns.
LoopResumeCompleted(w) ==
    /\ Runs(w, "completed_cb")
    /\ LET t == loops[w].task
           r == PublishFrom(subscribers, queues, received, "task.completed",
                            CompletedMessage(t, w, tasks[t].status),
                            loops[w].at + 1)
       IN  /\ received' = r.received
           /\ queues' = r.queues
           /\ loops' = [loops EXCEPT ![w] = AfterCompleted(t, r)]
    /\ UNCHANGED <<registryVars, subscribers, consumed, publisherVars,
                   workers, worker_caps, current_task, tasks, task_queue,
                   results, wf, returned>>

\* The pending cancel is delivered where the loop is suspended: the
\* CancelledError leaves whatever the loop awaits (a callback inside publish,
\* the queue, a sleep) and the loop's except clause breaks.  The task the
\* loop holds stays as it is.
LoopCancelled(w) ==
    /\ w \in DOMAIN loops
    /\ loops[w].cancel
    /\ loops[w].pc \notin {"cancelled", "crashed"}
    /\ loops' = [loops EXCEPT ![w] = [@ EXCEPT !.pc = "cancelled",
                                               !.cancel = FALSE]]
    /\ UNCHANGED <<registryVars, busVars, publisherVars, workers, worker_caps,
                   current_task, tasks, task_queue, results, wf, returned>>

\* One step of the dispatch loop of worker w.
_worker_loop(w) ==
    \/ LoopGet(w)
    \/ LoopWake(w)
    \/ LoopResumeAssigned(w)
    \/ \E fails \in BOOLEAN : LoopExecuteDone(w, fails)
    \/ LoopResumeCompleted(w)
    \/ LoopCancelled(w)

Next ==
    \/ \E topic \in Topics, callback \in CallbackKinds :
           WorkflowSubscribe(topic, callback)
    \/ \E w \in WorkerIds, caps \in WorkerCapabilityLists : add_worker(w, caps)
    \/ \E names \in NameLists(MaxTasks) : execute_workflow(names)
    \/ PollerExit
    \/ \E w \in WorkerIds : LoopGet(w)
    \/ \E w \in WorkerIds : LoopTimeout(w)
    \/ \E w \in WorkerIds : LoopWake(w)
    \/ \E w \in WorkerIds : LoopResumeAssigned(w)
    \/ \E w \in WorkerIds, fails \in BOOLEAN : LoopExecuteDone(w, fails)
    \/ \E w \in WorkerIds : LoopResumeCompleted(w)
    \/ \E w \in WorkerIds : LoopCancelled(w)

Spec == Init /\ [][Next]_vars

\* asyncio runs every coroutine that is ready: a dispatch loop that can take
\* a step eventually takes one, and so does execute_workflow's poll.
FairSpec ==
    /\ Spec
    /\ \A w \in WorkerIds : WF_vars(_worker_loop(w))
    /\ WF_vars(PollerExit)

-----------------------------------------------------------------------------
(* The registry and the bus on their own.                                  *)

RegistryNext ==
    \E agent_id \in AgentIds, capabilities \in CapabilityLists :
        register(agent_id, capabilities)

SpecRegistry == Init /\ [][RegistryNext]_vars

BusTopics == {"task.assigned"}

BusNext ==
    \/ \E topic \in BusTopics, callback \in CallbackKinds :
           BusSubscribe(topic, callback)
    \/ \E topic \in BusTopics : BusCreateQueue(topic)
    \/ \E topic \in BusTopics : BusConsume(topic)
    \/ \E p \in Publishers, topic \in BusTopics : BusPublish(p, topic)
    \/ \E p \in Publishers : BusResume(p)

SpecBus == Init /\ [][BusNext]_vars

-----------------------------------------------------------------------------
(* A Worker on its own: worker.execute(task) awaited by an asyncio task of *)
(* the caller, which the caller may cancel while execute is suspended in   *)
(* its work.  loops[w] is that asyncio task here: pc is "executing" inside *)
(* execute, "returned" when execute returned its task, "cancelled" when    *)
(* the CancelledError left execute.                                        *)

\* Task(name=name), with the next id.
NewTask(name) ==
    /\ Cardinality(DOMAIN tasks) < MaxTasks
    /\ LET id == Cardinality(DOMAIN tasks) + 1
       IN  tasks' = DictPut(tasks, id, Task(id, name))
    /\ UNCHANGED <<registryVars, busVars, publisherVars, workers, worker_caps,
                   current_task, task_queue, results, loops, wf, returned>>

\* worker.execute(task) on a fresh task, up to its await, for a worker with
\* no execute call in flight.
execute(w, t) ==
    /\ w \in DOMAIN worker_caps
    /\ w \in DOMAIN loops => loops[w].pc # "executing"
    /\ t \in DOMAIN tasks
    /\ tasks[t].status = "pending"
    /\ LET e == ExecuteBegin(tasks, current_task, w, t)
       IN  /\ tasks' = e.tasks
           /\ current_task' = e.current_task
    /\ loops' = DictPut(loops, w, LoopAt("executing", t, 0))
    /\ UNCHANGED <<registryVars, busVars, publisherVars, workers, worker_caps,
                   task_queue, results, wf, returned>>

\* The caller calls cancel() on the asyncio task that awaits execute.
ExecuteCancel(w) ==
    /\ Runs(w, "executing")
    /\ loops' = [loops EXCEPT ![w].cancel = TRUE]
    /\ UNCHANGED <<registryVars, busVars, publisherVars, workers, worker_caps,
                   current_task, tasks, task_queue, results, wf, returned>>

\* execute resumes from its await and returns.
ExecuteReturn(w, fails) ==
    /\ Runs(w, "executing")
    /\ LET e == ExecuteEnd(tasks, current_task, w, loops[w].task, fails)
       IN  /\ tasks' = e.tasks
           /\ current_task' = e.current_task
    /\ loops' = [loops EXCEPT ![w] = LoopAt("returned", loops[w].task, 0)]
    /\ UNCHANGED <<registryVars, busVars, publisherVars, workers, worker_caps,
                   task_queue, results, wf, returned>>

\* The pending cancel is delivered at the await of execute: CancelledError
\* is a BaseException, `except Exception` does not catch it and there is no
\* finally, so it leaves execute past `self.current_task = None`.
ExecuteCancelled(w) ==
    /\ w \in DOMAIN loops
    /\ loops[w].pc = "executing"
    /\ loops[w].cancel
    /\ loops' = [loops EXCEPT ![w] = LoopAt("cancelled", loops[w].task, 0)]
    /\ UNCHANGED <<registryVars, busVars, publisherVars, workers, worker_caps,
                   current_task, tasks, task_queue, results, wf, returned>>

WorkerNext ==
    \/ \E w \in WorkerIds, caps \in WorkerCapabilityLists : add_worker(w, caps)
    \/ \E name \in TaskNames : NewTask(name)
    \/ \E w \in WorkerIds, t \in 1..MaxTasks : execute(w, t)
    \/ \E w \in WorkerIds : ExecuteCancel(w)
    \/ \E w \in WorkerIds, fails \in BOOLEAN : ExecuteReturn(w, fails)
    \/ \E w \in WorkerIds : ExecuteCancelled(w)

SpecWorker == Init /\ [][WorkerNext]_vars

-----------------------------------------------------------------------------
(* A workflow watched the way main() watches it: one callback, log_events, *)
(* subscribed to "task.assigned" and to "task.completed" before the        *)
(* workers are added.  The callback is of any of the three kinds.          *)

\* message_bus.subscribe("task.assigned", log_events)
\* message_bus.subscribe("task.completed", log_events)
SubscribeLogEvents(callback) ==
    /\ wf = "idle"
    /\ subscribers = EmptyDict
    /\ workers = <<>>
    /\ subscribers' = [topic \in Topics |-> <<callback>>]
    /\ received' = [topic \in Topics |-> <<<<>>>>]
    /\ UNCHANGED <<registryVars, queues, consumed, publisherVars, orchVars>>

MonitoredNext ==
    \/ \E callback \in CallbackKinds : SubscribeLogEvents(callback)
    \/ \E w \in WorkerIds, caps \in WorkerCapabilityLists : add_worker(w, caps)
    \/ \E names \in NameLists(MaxTasks) : execute_workflow(names)
    \/ PollerExit
    \/ \E w \in WorkerIds : LoopGet(w)
    \/ \E w \in WorkerIds : LoopTimeout(w)
    \/ \E w \in WorkerIds : LoopWake(w)
    \/ \E w \in WorkerIds : LoopResumeAssigned(w)
    \/ \E w \in WorkerIds, fails \in BOOLEAN : LoopExecuteDone(w, fails)
    \/ \E w \in WorkerIds : LoopResumeCompleted(w)
    \/ \E w \in WorkerIds : LoopCancelled(w)

SpecMonitored == Init /\ [][MonitoredNext]_vars

-----------------------------------------------------------------------------
(* A sequence of execute_workflow calls on one orchestrator: when a call   *)
(* has returned, the caller may call again with new tasks.                 *)

\* execute_workflow(tasks) called after an earlier call returned, up to its
\* first await.  The new tasks get the next ids and go to the tail of the
\* queue, self.results is not touched, and one new dispatch loop per worker
\* is created.  The loops of the earlier call were cancelled by it: each has
\* ended or ends at its next resumption without another step of its own, so
\* loops holds the new ones from here on.
NextWorkflow(names) ==
    /\ wf = "returned"
    /\ Cardinality(DOMAIN tasks) + Len(names) <= MaxTasks
    /\ LET created == [w \in Range(workers) |-> LoopAt("get", NoTask, 0)]
           n == Cardinality(DOMAIN tasks)
       IN  /\ tasks' = [i \in 1..(n + Len(names)) |->
                           IF i <= n THEN tasks[i] ELSE Task(i, names[i - n])]
           /\ task_queue' = task_queue \o [i \in 1..Len(names) |-> n + i]
           /\ IF Quiescent /\ names = <<>>
              THEN /\ loops' = CancelAll(created)
                   /\ wf' = "returned"
                   /\ returned' = results
              ELSE /\ loops' = created
                   /\ wf' = "polling"
                   /\ UNCHANGED returned
    /\ UNCHANGED <<registryVars, busVars, publisherVars, workers, worker_caps,
                   current_task, results>>

SeqNext ==
    \/ \E names \in NameLists(MaxTasks) : NextWorkflow(names)
    \/ MonitoredNext

SpecSeq == Init /\ [][SeqNext]_vars

-----------------------------------------------------------------------------
(* Properties of the registry, checked under SpecRegistry.                 *)

\* The capability names of a capability list.
NamesOf(capabilities) == {capabilities[i].name : i \in DOMAIN capabilities}

\* The agent ids of a list of registrations.
IdsOf(regs) == {regs[i].agent_id : i \in DOMAIN regs}

\* C8 (registration idempotence): a register(id, caps2) call on an id that is
\* registered with other capabilities leaves the registration of id carrying
\* caps2, and afterwards discover(c) returns id only for the capability
\* names c of caps2.
C8_RegistrationIdempotence ==
    [][\A id \in AgentIds, caps2 \in CapabilityLists :
          (/\ id \in DOMAIN agents
           /\ agents[id].capabilities # caps2
           /\ register(id, caps2))
          => /\ agents'[id].capabilities = caps2
             /\ \A c \in CapabilityNames :
                    id \in IdsOf(DiscoverIn(agents', capability_index', c,
                                            EmptyDict))
                    => c \in NamesOf(caps2)]_vars

\* C9 (discovery completeness): in every state of the registry discover(c)
\* without constraints returns exactly the current registrations of the
\* agents whose capability list names c, each agent once.
C9_DiscoveryCompleteness ==
    \A c \in CapabilityNames :
        LET found == discover(c, EmptyDict)
        IN  /\ IdsOf(found) = {id \in DOMAIN agents :
                                  c \in NamesOf(agents[id].capabilities)}
            /\ \A i \in DOMAIN found : found[i] = agents[found[i].agent_id]
            /\ \A i, j \in DOMAIN found :
                   i # j => found[i].agent_id # found[j].agent_id

\* The value a constraint map holds for a key; a key the map lacks reads as
\* None.
ConstraintValue(map, k) == IF k \in DOMAIN map THEN map[k] ELSE None

\* A registration has some capability whose constraint map agrees with the
\* query on every key of the query.
SomeCapabilityAgrees(reg, query) ==
    \E cap \in Range(reg.capabilities) :
        \A k \in DOMAIN query : ConstraintValue(cap.constraints, k) = query[k]

RegionUs == [k \in {"region"} |-> "us"]
RegionEu == [k \in {"region"} |-> "eu"]

\* C10 (constraint filtering): with a non-empty constraints map discover
\* returns the registrations of discover(c), in the same order, that have
\* some capability (any of theirs) agreeing with the query on every key of
\* the query; a registration whose only capability has constraints
\* {region: us} is returned for {region: us} and not for {region: eu}.
C10_ConstraintFiltering ==
    /\ \A c \in CapabilityNames, query \in QueryConstraints \ {EmptyDict} :
           discover(c, query) =
               SelectSeq(discover(c, EmptyDict),
                         LAMBDA reg : SomeCapabilityAgrees(reg, query))
    /\ \A id \in DOMAIN agents, c \in CapabilityNames :
           agents[id].capabilities = <<AgentCapability(c, RegionUs)>>
           => /\ id \in IdsOf(discover(c, RegionUs))
              /\ id \notin IdsOf(discover(c, RegionEu))

\* C10's case: an agent whose first capability disagrees with the query and
\* whose second agrees is returned, an agent with no agreeing capability is
\* filtered out of the same discovery.
C10_Witness ==
    \E c \in CapabilityNames, id \in DOMAIN agents, other \in DOMAIN agents :
        /\ Len(agents[id].capabilities) = 2
        /\ ~CapabilityMatches(agents[id].capabilities[1], RegionUs)
        /\ CapabilityMatches(agents[id].capabilities[2], RegionUs)
        /\ id \in IdsOf(discover(c, RegionUs))
        /\ other \in IdsOf(discover(c, EmptyDict))
        /\ other \notin IdsOf(discover(c, RegionUs))

-----------------------------------------------------------------------------
(* Properties of the bus, checked under SpecBus.                           *)

\* The ids of the messages of a list.
MessageIds(msgs) == {msgs[i].id : i \in DOMAIN msgs}

\* Message id a comes before message id b in a list that holds both.
Precedes(msgs, a, b) ==
    \E i, j \in DOMAIN msgs : i < j /\ msgs[i].id = a /\ msgs[j].id = b

\* Everything a topic's queue was given, in the order its consumer gets it:
\* what was pulled already, then what is still queued.
QueueYield(topic) ==
    IF topic \in DOMAIN queues THEN consumed[topic] \o queues[topic] ELSE <<>>

\* The logs of the callbacks of a topic, in subscription order.
CallbackLogs(topic) ==
    IF topic \in DOMAIN received THEN received[topic] ELSE <<>>

\* No subscribed callback is one that raises.
NoCallbackRaises ==
    \A topic \in DOMAIN subscribers : "raises" \notin Range(subscribers[topic])

\* C6 (subscriber isolation): when a publish call is over because a callback
\* raised, every callback that was subscribed to the topic when publish was
\* called has been invoked with the message, and the message has been put on
\* the topic's queue if there was one.
C6_SubscriberIsolation ==
    \A m \in DOMAIN published :
        published[m].status = "raised"
        => LET topic == published[m].topic
           IN  /\ \A j \in 1..published[m].nsubs :
                      m \in MessageIds(received[topic][j])
               /\ published[m].had_queue => m \in MessageIds(QueueYield(topic))

\* C7 (bus ordering, sequential publishes): for two messages of one topic
\* where publish(M1) was over before publish(M2) was called, no callback and
\* no queue consumer gets M2 before M1; and when publish(M1) returned, a
\* callback subscribed before publish(M1) that has received M2 has received
\* M1, and so has a queue created before publish(M1).
C7_SequentialOrdering ==
    \A m2 \in DOMAIN published :
        \A m1 \in published[m2].before :
            published[m1].topic = published[m2].topic
            => LET topic == published[m2].topic
                   returned1 == m1 \in published[m2].returned_before
               IN  /\ \A j \in DOMAIN CallbackLogs(topic) :
                          LET log == CallbackLogs(topic)[j]
                          IN  /\ ~Precedes(log, m2, m1)
                              /\ (/\ returned1
                                   /\ j <= published[m1].nsubs
                                   /\ m2 \in MessageIds(log))
                                  => Precedes(log, m1, m2)
                   /\ ~Precedes(QueueYield(topic), m2, m1)
                   /\ (/\ returned1
                        /\ published[m1].had_queue
                        /\ m2 \in MessageIds(QueueYield(topic)))
                       => Precedes(QueueYield(topic), m1, m2)

\* C7's case: publish(M1) returned after a suspension, publish(M2) was called
\* afterwards, and a callback and the queue consumer have both messages.
C7_Witness ==
    \E m2 \in DOMAIN published :
        \E m1 \in published[m2].returned_before :
            LET topic == published[m2].topic
            IN  /\ published[m1].topic = topic
                /\ topic \in DOMAIN subscribers
                /\ "suspends" \in Range(subscribers[topic])
                /\ \E j \in DOMAIN received[topic] :
                       {m1, m2} \subseteq MessageIds(received[topic][j])
                /\ topic \in DOMAIN consumed
                /\ {m1, m2} \subseteq MessageIds(consumed[topic])

\* C19 (bus ordering under concurrent publishers): for two messages of one
\* topic, M1 of the publish call that was started first (message ids count
\* the calls in the order they start), no callback of the topic and no
\* consumer of its queue gets M2 before M1, also when publish(M2) is called
\* while publish(M1) is suspended in a callback.  Stated for callbacks that
\* do not raise.
C19_ConcurrentOrdering ==
    NoCallbackRaises
    => \A m1, m2 \in DOMAIN published :
           (m1 < m2 /\ published[m1].topic = published[m2].topic)
           => LET topic == published[m1].topic
              IN  /\ \A j \in DOMAIN CallbackLogs(topic) :
                         ~Precedes(CallbackLogs(topic)[j], m2, m1)
                  /\ ~Precedes(QueueYield(topic), m2, m1)

-----------------------------------------------------------------------------
(* Properties of a workflow, checked under Spec and FairSpec.              *)

Terminal == {"completed", "failed"}

\* The task's name is in the capability list of some registered worker.
Routable(t) ==
    \E i \in DOMAIN workers : CanHandle(worker_caps[workers[i]], tasks[t])

\* C1 (no submitted work is lost): when execute_workflow has returned, every
\* submitted task that some registered worker can handle is in the returned
\* list with status COMPLETED or FAILED.  The claim is stated here for the
\* runs in which no callback raises: the interleavings it names, with a
\* publish suspended in a callback, are among them.
C1_NoWorkLost ==
    (wf = "returned" /\ NoCallbackRaises)
    => \A t \in DOMAIN tasks :
           Routable(t) => /\ t \in Range(returned)
                          /\ tasks[t].status \in Terminal

\* C2 (workflow termination): a started workflow in which every task can be
\* handled by some registered worker (no callback raising, every execute and
\* every callback terminating by fairness) eventually returns.
C2_WorkflowTerminates ==
    (/\ wf = "polling"
     /\ NoCallbackRaises
     /\ \A t \in DOMAIN tasks : Routable(t))
    ~> (wf = "returned")

\* C3 (no capable worker): a started workflow with workers and a task that
\* no registered worker can handle still eventually returns (stated for the
\* runs in which no callback raises, so that every dispatch loop stays alive).
C3_UnroutableTaskTerminates ==
    (/\ wf = "polling"
     /\ workers # <<>>
     /\ NoCallbackRaises
     /\ \E t \in DOMAIN tasks : ~Routable(t))
    ~> (wf = "returned")

\* The tasks assigned to worker w that are not terminal.
InFlight(w) ==
    {t \in DOMAIN tasks :
        tasks[t].assigned_to = w /\ tasks[t].status \notin Terminal}

Capable(w, t) == tasks[t].name \in Range(worker_caps[w])

\* C5 (capability-matched assignment): a task is assigned only to a worker
\* whose capability list holds its name; a worker is inside execute only on
\* a task assigned to it that it can handle; every task of the results map
\* is assigned to a worker that can handle it, and its result was produced
\* by that worker.
C5_CapabilityMatched ==
    /\ \A t \in DOMAIN tasks :
           /\ tasks[t].assigned_to # None
               => /\ tasks[t].assigned_to \in Range(workers)
                  /\ Capable(tasks[t].assigned_to, t)
           /\ tasks[t].status # "pending" => tasks[t].assigned_to # None
           /\ tasks[t].result # None
               => tasks[t].result[2] = tasks[t].assigned_to
    /\ \A i \in DOMAIN workers :
           current_task[workers[i]] # NoTask
           => /\ tasks[current_task[workers[i]]].assigned_to = workers[i]
              /\ Capable(workers[i], current_task[workers[i]])
    /\ \A i \in DOMAIN results :
           /\ tasks[results[i]].assigned_to \in Range(workers)
           /\ Capable(tasks[results[i]].assigned_to, results[i])

\* C5's case: a task is in the results map, executed by a capable worker,
\* while another registered worker could not have handled it.
C5_Witness ==
    \E i \in DOMAIN results, j \in DOMAIN workers :
        /\ tasks[results[i]].status = "completed"
        /\ ~Capable(workers[j], results[i])

\* The messages the first callback of a topic was invoked with (every
\* publish on the topic invokes it before anything else); none without a
\* subscriber.
FirstCallbackLog(topic) ==
    IF topic \in DOMAIN received /\ received[topic] # <<>>
    THEN received[topic][1] ELSE <<>>

\* A task.completed event of task t with the given source and status is in
\* the list.
HasCompletedEvent(msgs, t, source, status) ==
    \E i \in DOMAIN msgs :
        /\ msgs[i].type = "event"
        /\ msgs[i].source = source
        /\ msgs[i].destination = "orchestrator"
        /\ msgs[i].payload = [task_id |-> t, status |-> status]

\* C11 (execution failure is contained): a task whose execution failed has
\* status FAILED with error set and no result, is in the results map, and
\* its worker's busy flag is released; the task.completed event the
\* subscribers of the topic got for it carries the FAILED status; and the
\* failure ends no dispatch loop: where no callback raises, no loop has left
\* _worker_loop by an exception, the failing worker's included.
C11_FailureContained ==
    \A t \in DOMAIN tasks :
        tasks[t].status = "failed"
        => /\ tasks[t].error # None
           /\ tasks[t].result = None
           /\ t \in Range(results)
           /\ \A w \in DOMAIN current_task : current_task[w] # t
           /\ "task.completed" \in DOMAIN subscribers
              => HasCompletedEvent(FirstCallbackLog("task.completed"), t,
                                   tasks[t].assigned_to, "failed")
           /\ NoCallbackRaises
              => \A w \in DOMAIN loops : loops[w].pc # "crashed"

\* C11's case: a worker's execution of one task failed, a task.completed
\* callback got the FAILED event, and the same worker went on to complete
\* another task after it.
C11_Witness ==
    \E i, j \in DOMAIN results :
        /\ i < j
        /\ tasks[results[i]].status = "failed"
        /\ tasks[results[j]].status = "completed"
        /\ tasks[results[i]].assigned_to = tasks[results[j]].assigned_to
        /\ HasCompletedEvent(FirstCallbackLog("task.completed"), results[i],
                             tasks[results[i]].assigned_to, "failed")

\* C12 (busy flag release): in every state a worker's current_task is
\* non-null only while an execute call on that worker is in flight, whichever
\* way the last call was left (returned after completion or failure, or left
\* by the cancellation of the asyncio task awaiting it).
C12_BusyFlagRelease ==
    \A w \in DOMAIN current_task :
        current_task[w] # NoTask
        => /\ w \in DOMAIN loops
           /\ loops[w].pc = "executing"

\* The dispatch loops that hold task t: they took it from the queue and
\* have not gone back to the queue since.
Holders(t) == {w \in DOMAIN loops : loops[w].task = t}

\* The positions of task t in the shared queue.
QueuePositions(t) == {i \in DOMAIN task_queue : task_queue[i] = t}

\* In every state: a task is in the queue at most once, is held by at most
\* one loop, and then by the loop of the worker it is assigned to, and is not
\* in the queue while a loop holds it or after it left PENDING; a worker is
\* inside execute only on a task its own loop holds.
C13_ClaimedOnce ==
    /\ \A t \in DOMAIN tasks :
           /\ Cardinality(QueuePositions(t)) <= 1
           /\ Cardinality(Holders(t)) <= 1
           /\ Holders(t) \subseteq {tasks[t].assigned_to}
           /\ QueuePositions(t) # {}
               => /\ Holders(t) = {}
                  /\ tasks[t].status = "pending"
                  /\ t \notin Range(results)
    /\ \A w \in DOMAIN current_task :
           current_task[w] # NoTask => Holders(current_task[w]) = {w}

\* In every step: a task enters IN_PROGRESS (execute is called on it) only
\* from PENDING, a terminal task is never changed again, and a loop that
\* writes a task id to the results map writes an id that is not in it yet.
C13_ExecutedOnce ==
    /\ \A t \in (DOMAIN tasks) \cap (DOMAIN tasks') :
           /\ (tasks'[t].status = "in_progress"
                  /\ tasks[t].status # "in_progress")
               => tasks[t].status = "pending"
           /\ tasks[t].status \in Terminal => tasks'[t] = tasks[t]
    /\ \A w \in WorkerIds, fails \in BOOLEAN :
           LoopExecuteDone(w, fails) => loops[w].task \notin Range(results)

C15_MismatchRequeue ==
    [][\A w \in WorkerIds :
          (/\ LoopGet(w)
           /\ Head(task_queue) \in DOMAIN tasks
           /\ tasks[Head(task_queue)].name \notin Range(worker_caps[w]))
          => /\ task_queue' = Append(Tail(task_queue), Head(task_queue))
             /\ tasks' = tasks
             /\ current_task' = current_task
             /\ results' = results
             /\ received' = received
             /\ queues' = queues]_vars

\* C15's case: a loop sleeps after a requeue, and the task it cannot handle
\* is at the tail of the queue behind another one, PENDING and unassigned.
C15_Witness ==
    \E w \in DOMAIN loops :
        /\ loops[w].pc = "sleeping"
        /\ Len(task_queue) = 2
        /\ ~Capable(w, task_queue[2])
        /\ Capable(w, task_queue[1])
        /\ tasks[task_queue[2]].status = "pending"
        /\ tasks[task_queue[2]].assigned_to = None
        /\ current_task[w] = NoTask

\* C16 (eventual servicing): under fair scheduling of the loops, a queued
\* task that some registered worker can handle is eventually taken by a
\* capable worker and executed (it leaves PENDING), unless the stop signal
\* comes first (the workflow is no longer polling).  Stated for the runs in
\* which no callback raises, so that every dispatch loop stays alive.
C16_EventualServicing ==
    \A t \in 1..MaxTasks :
        (/\ wf = "polling"
         /\ NoCallbackRaises
         /\ t \in Range(task_queue)
         /\ Routable(t))
        ~> (\/ wf # "polling"
            \/ t \in DOMAIN tasks /\ tasks[t].status # "pending")

\* The stop signal has been given: cancel() was called on the dispatch
\* loops (it is pending or was delivered), which execute_workflow does right
\* before it returns.
Stopped ==
    \/ wf = "returned"
    \/ \E w \in DOMAIN loops : loops[w].cancel \/ loops[w].pc = "cancelled"

\* C17 (no in-flight execution is interrupted): once the stop signal has been
\* given the shared queue is empty, every worker's current_task is null, no
\* loop is inside worker.execute and no task is IN_PROGRESS; and a task that
\* is IN_PROGRESS is inside execute on a loop with no cancel pending, so its
\* execute runs to its own completion.
C17_NoInterruptedExecution ==
    /\ Stopped
       => /\ wf = "returned"
          /\ task_queue = <<>>
          /\ \A w \in DOMAIN current_task : current_task[w] = NoTask
          /\ \A w \in DOMAIN loops : loops[w].pc # "executing"
          /\ \A t \in DOMAIN tasks : tasks[t].status # "in_progress"
    /\ \A t \in DOMAIN tasks :
           tasks[t].status = "in_progress"
           => /\ tasks[t].assigned_to \in DOMAIN loops
              /\ loops[tasks[t].assigned_to].pc = "executing"
              /\ loops[tasks[t].assigned_to].task = t
              /\ ~loops[tasks[t].assigned_to].cancel
              /\ current_task[tasks[t].assigned_to] = t

\* C17's case: the loops were cancelled after two workers each ran an
\* execute to its end; one loop has taken the cancel, the other has it
\* pending.
C17_Witness ==
    /\ wf = "returned"
    /\ \E w, v \in DOMAIN loops :
           /\ loops[w].cancel
           /\ loops[v].pc = "cancelled"
           /\ \E t, u \in DOMAIN tasks :
                  /\ tasks[t].assigned_to = w /\ tasks[t].status \in Terminal
                  /\ tasks[u].assigned_to = v /\ tasks[u].status \in Terminal

\* No subscribed callback is one that suspends.
NoCallbackSuspends ==
    \A topic \in DOMAIN subscribers :
        "suspends" \notin Range(subscribers[topic])

\* C18 (a bus delivery fault is not fatal to dispatch): with callbacks that
\* return at once or fail, no dispatch loop is ended by an exception, and
\* when execute_workflow has returned every task a loop has claimed was
\* executed to a terminal status and is in the returned list.
C18_BusFaultNotFatal ==
    NoCallbackSuspends
    => /\ \A w \in DOMAIN loops : loops[w].pc # "crashed"
       /\ wf = "returned"
          => \A t \in DOMAIN tasks :
                 tasks[t].assigned_to # None
                 => /\ tasks[t].status \in Terminal
                    /\ t \in Range(returned)

-----------------------------------------------------------------------------
(* Properties of a watched workflow, checked under SpecMonitored.          *)

\* A task.assigned event of task t for worker w is in the list.
HasAssignedEvent(msgs, t, w) ==
    \E i \in DOMAIN msgs :
        /\ msgs[i].type = "event"
        /\ msgs[i].source = "orchestrator"
        /\ msgs[i].destination = w
        /\ msgs[i].payload = [task_id |-> t, worker_id |-> w]

\* The task.assigned (task.completed) events some callback of the topic was
\* invoked with.
AssignedEvents ==
    UNION {Range(CallbackLogs("task.assigned")[j]) :
              j \in DOMAIN CallbackLogs("task.assigned")}

CompletedEvents ==
    UNION {Range(CallbackLogs("task.completed")[j]) :
              j \in DOMAIN CallbackLogs("task.completed")}

\* Every callback subscribed to task.assigned has been invoked with the
\* event of task t for worker w: publish("task.assigned") went through.
AssignedDelivered(t, w) ==
    \A j \in DOMAIN CallbackLogs("task.assigned") :
        HasAssignedEvent(CallbackLogs("task.assigned")[j], t, w)

\* C14 (lifecycle event ordering), as what holds in every state:
\*   (1) before (2): a published task.assigned event names the worker the
\*       task is assigned to, with source orchestrator, destination and
\*       payload worker_id that worker;
\*   (2) before (3): a task that execute has been called on is assigned and
\*       its task.assigned event has been delivered to every callback;
\*   (3) before (4): a task is in the results map exactly when it is terminal;
\*   (4) before (5): a published task.completed event is of a task that is in
\*       the results map, with source the task's worker, destination
\*       orchestrator and the stored task's terminal status, and the
\*       task.assigned event of the same task and worker was published
\*       before it;
\*   and the task.completed event of a terminal task has been published.
C14_LifecycleOrder ==
    /\ \A m \in AssignedEvents :
           /\ m.payload.task_id \in DOMAIN tasks
           /\ tasks[m.payload.task_id].assigned_to = m.payload.worker_id
           /\ HasAssignedEvent(<<m>>, m.payload.task_id,
                               tasks[m.payload.task_id].assigned_to)
    /\ \A t \in DOMAIN tasks :
           /\ tasks[t].status # "pending"
               => /\ tasks[t].assigned_to \in Range(workers)
                  /\ AssignedDelivered(t, tasks[t].assigned_to)
           /\ t \in Range(results) <=> tasks[t].status \in Terminal
           /\ (tasks[t].status \in Terminal
                  /\ "task.completed" \in DOMAIN subscribers)
               => HasCompletedEvent(FirstCallbackLog("task.completed"), t,
                                    tasks[t].assigned_to, tasks[t].status)
    /\ \A m \in CompletedEvents :
           LET t == m.payload.task_id
           IN  /\ t \in Range(results)
               /\ tasks[t].status \in Terminal
               /\ HasCompletedEvent(<<m>>, t, tasks[t].assigned_to,
                                    tasks[t].status)
               /\ "task.assigned" \in DOMAIN subscribers
                   => HasAssignedEvent(FirstCallbackLog("task.assigned"), t,
                                       m.source)

\* C14's case: with a suspending callback on both topics, a task went
\* through all five steps, while another task's task.assigned event is out
\* and its execution has not begun.
C14_Witness ==
    /\ "task.assigned" \in DOMAIN subscribers
    /\ subscribers["task.assigned"] = <<"suspends">>
    /\ \E t, u \in DOMAIN tasks :
           /\ t \in Range(results)
           /\ HasAssignedEvent(FirstCallbackLog("task.assigned"), t,
                               tasks[t].assigned_to)
           /\ HasCompletedEvent(FirstCallbackLog("task.completed"), t,
                                tasks[t].assigned_to, tasks[t].status)
           /\ tasks[u].status = "pending"
           /\ tasks[u].assigned_to # None
           /\ HasAssignedEvent(FirstCallbackLog("task.assigned"), u,
                               tasks[u].assigned_to)

-----------------------------------------------------------------------------
(* Properties of a sequence of workflows, checked under SpecSeq.           *)

\* List a is an initial part of list b.
IsPrefix(a, b) ==
    /\ Len(a) <= Len(b)
    /\ \A i \in DOMAIN a : a[i] = b[i]

\* C20 (results accumulate across workflows): no step removes or moves an
\* entry of the results map, new entries go behind the old ones; a call of
\* execute_workflow returns the results map as it is, so the list a later
\* call returns begins with the list the call before it returned, followed
\* by the tasks stored since.
C20_ResultsAccumulate ==
    /\ [](wf = "returned" => returned = results)
    /\ [][/\ IsPrefix(results, results')
          /\ IsPrefix(returned, returned')]_vars

\* C20's case: an earlier call has returned a non-empty list, and a later
\* call is running in which another task was stored behind that list.
C20_Witness ==
    /\ wf = "polling"
    /\ returned # <<>>
    /\ Len(results) > Len(returned)
    /\ IsPrefix(returned, results)
    /\ tasks[results[Len(results)]].status \in Terminal

=============================================================================
